---- MODULE Spec2Model ----
(***************************************************************************)
(* Distributed MapReduce: the coordinator's task table and phase flags     *)
(* (src/src/mapreduce/coordinator.py), the worker loop                     *)
(* (src/src/mapreduce/worker.py) and the connection-per-call RPC between   *)
(* them (src/src/mapreduce/rpc_utils.py).                                  *)
(*                                                                         *)
(* Every RPC handler and the monitor body run under Coordinator.lock, so   *)
(* each is one atomic action.  Time: the only use the program makes of     *)
(* TaskInfo.start_time is the comparison `time.time() - start_time > 10`   *)
(* in the monitor, so the model stores in start_time the lease's age       *)
(* (time.time() - start_time), advanced by Tick while the task is          *)
(* IN_PROGRESS and saturated just above the timeout.  completion_time is   *)
(* never read by the program; the model keeps only whether it is set       *)
(* (0) or not (None).                                                      *)
(***************************************************************************)
EXTENDS Integers, FiniteSets, Sequences, TLC

\* ---- bounds of the model
NumFiles == 2
NReduce == 1
NumWorkers == 2
TickStep == 5

\* ---- program constants
LeaseTimeout == 10

None == -1
UnknownTaskId == NumFiles + NReduce

IDLE == "idle"
IN_PROGRESS == "in_progress"
COMPLETED == "completed"

MAP == "map"
REDUCE == "reduce"
WAIT == "wait"
EXIT == "exit"

Workers == 1 .. NumWorkers
MapIds == 0 .. (NumFiles - 1)
ReduceIds == NumFiles .. (NumFiles + NReduce - 1)
TaskIds == MapIds \cup ReduceIds

VARIABLES
    map_tasks,           \* Coordinator.map_tasks: task_id -> TaskInfo
    reduce_tasks,        \* Coordinator.reduce_tasks: task_id -> TaskInfo
    map_phase_complete,  \* Coordinator.map_phase_complete
    all_tasks_complete,  \* Coordinator.all_tasks_complete
    monitor_running,     \* the monitor thread has not left its loop
    worker,              \* per worker: position in Worker.run and its locals
    reply,               \* the value the last RPC handler returned
    hash_seed,           \* per worker process: the seed of Python's str hash
    dir,                 \* working directory: file name -> inode, or None
    disk,                \* inode -> the records (lines) stored in it
    exec,                \* per worker: locals of _execute_map/_reduce_task
    rpc_server,          \* RPCServer: its listening socket and accept loop
    argument,            \* argument of a library function called on its own
    file_text,           \* the characters of the file such a call wrote
    returned             \* the value such a call returned

coord == <<map_tasks, reduce_tasks, map_phase_complete, all_tasks_complete>>
data == <<hash_seed, dir, disk, exec>>
library == <<argument, file_text, returned>>
vars == <<map_tasks, reduce_tasks, map_phase_complete, all_tasks_complete,
          monitor_running, worker, reply, hash_seed, dir, disk, exec,
          rpc_server, argument, file_text, returned>>

\* ---- data ---------------------------------------------------------------

TaskInfo == [status |-> IDLE, worker_id |-> None, start_time |-> None,
             completion_time |-> None]

MinOf(S) == CHOOSE x \in S : \A y \in S : x <= y

TaskTypeOf(task_id) == IF task_id \in DOMAIN map_tasks THEN MAP ELSE REDUCE

\* A reply is the envelope RPCServer._handle_client sends (rpc_utils.py lines
\* 91-95): success and error, and the fields of the handler's result.
NoReply == [task_type |-> "none", task_id |-> None, acknowledged |-> FALSE,
            success |-> FALSE, error |-> ""]
TaskReply(task_type, task_id) ==
    [task_type |-> task_type, task_id |-> task_id, acknowledged |-> FALSE,
     success |-> TRUE, error |-> ""]
AckReply(ok) == [task_type |-> "ack", task_id |-> None, acknowledged |-> ok,
                 success |-> TRUE, error |-> ""]
ErrorReply(error) == [task_type |-> "none", task_id |-> None,
                      acknowledged |-> FALSE, success |-> FALSE, error |-> error]

\* str(e) of an exception _execute_task caught (worker.py lines 140-142)
NoError == ""
TaskError == "error raised while executing the task"
FileNotFoundError == "[Errno 2] No such file or directory"

\* error: str(e) of the exception the last _execute_task caught, if any
IdleWorker == [pc |-> "request", task_id |-> None, success |-> FALSE,
               error |-> NoError]

\* locals of a task execution that has not started
IdleExec == [read |-> 0, all_key_values |-> <<>>, reduce_id |-> 0,
             f |-> None, pos |-> 0]

\* the data plane left out: Spec, SpecRPC and LiveSpec treat an execution
\* as one step (ExecuteTask) and do not look at files
NoData ==
    /\ hash_seed = [w \in Workers |-> 0]
    /\ dir = <<>>
    /\ disk = <<>>
    /\ exec = [w \in Workers |-> IdleExec]

\* ---- RPC server ---------------------------------------------------------

LISTENING == "listening"
STOPPING == "stopping"
CLOSED == "closed"

\* _server_loop (rpc_utils.py lines 53-62): a connection is accepted and
\* handed to _handle_client.  After stop() the thread blocked in accept()
\* still takes the next connection; the loop then sees running = False.
Accept ==
    /\ rpc_server # CLOSED
    /\ rpc_server' = IF rpc_server = LISTENING THEN LISTENING ELSE CLOSED

\* no library function is called on its own
NoCall ==
    /\ argument = <<>>
    /\ file_text = <<>>
    /\ returned = <<>>

\* ---- coordinator --------------------------------------------------------

AllCompleted(tasks) == \A t \in DOMAIN tasks : tasks[t].status = COMPLETED

\* GetAvailableTask with a fault: any unfinished task is handed out
GetAvailableTaskUnfinished ==
    IF ~map_phase_complete
    THEN IF \E t \in DOMAIN map_tasks : map_tasks[t].status # COMPLETED
         THEN MinOf({t \in DOMAIN map_tasks : map_tasks[t].status # COMPLETED})
         ELSE None
    ELSE IF \E t \in DOMAIN reduce_tasks : reduce_tasks[t].status # COMPLETED
         THEN MinOf({t \in DOMAIN reduce_tasks : reduce_tasks[t].status # COMPLETED})
         ELSE None

\* GetAvailableTask with a fault: an IDLE task that was completed before (and
\* reset since) is preferred to the others
GetAvailableTaskRetriesFirst ==
    LET tasks == IF ~map_phase_complete THEN map_tasks ELSE reduce_tasks
        idle == {t \in DOMAIN tasks : tasks[t].status = IDLE}
        retries == {t \in idle : tasks[t].completion_time # None}
    IN IF retries # {} THEN MinOf(retries)
       ELSE IF idle # {} THEN MinOf(idle)
       ELSE None

\* GetAvailableTask with a fault: with no MAP task left to hand out, REDUCE
\* tasks are handed out whether or not the map phase is complete
GetAvailableTaskEager ==
    IF \E t \in DOMAIN map_tasks : map_tasks[t].status = IDLE
    THEN MinOf({t \in DOMAIN map_tasks : map_tasks[t].status = IDLE})
    ELSE IF \E t \in DOMAIN reduce_tasks : reduce_tasks[t].status = IDLE
         THEN MinOf({t \in DOMAIN reduce_tasks : reduce_tasks[t].status = IDLE})
         ELSE None

\* _get_available_task: dicts iterate in insertion order, i.e. by task_id
GetAvailableTask ==
    IF ~map_phase_complete
    THEN IF \E t \in DOMAIN map_tasks : map_tasks[t].status = IDLE
         THEN MinOf({t \in DOMAIN map_tasks : map_tasks[t].status = IDLE})
         ELSE None
    ELSE IF \E t \in DOMAIN reduce_tasks : reduce_tasks[t].status = IDLE
         THEN MinOf({t \in DOMAIN reduce_tasks : reduce_tasks[t].status = IDLE})
         ELSE None

\* AssignTask with a fault: the lease's start is not recorded
AssignTaskUntimed(task_info, worker_id) ==
    [task_info EXCEPT !.status = IN_PROGRESS, !.worker_id = worker_id]

\* lines 171-173
AssignTask(task_info, worker_id) ==
    [task_info EXCEPT !.status = IN_PROGRESS, !.worker_id = worker_id,
                      !.start_time = 0]

\* _handle_task_request
HandleTaskRequest(worker_id) ==
    LET task == GetAvailableTask IN
    /\ IF task = None
       THEN /\ reply' = TaskReply(IF all_tasks_complete THEN EXIT ELSE WAIT, None)
            /\ UNCHANGED <<map_tasks, reduce_tasks>>
       ELSE /\ map_tasks' = [t \in DOMAIN map_tasks |->
                   IF TaskTypeOf(task) = MAP /\ t = task
                   THEN AssignTask(map_tasks[t], worker_id) ELSE map_tasks[t]]
            /\ reduce_tasks' = [t \in DOMAIN reduce_tasks |->
                   IF TaskTypeOf(task) # MAP /\ t = task
                   THEN AssignTask(reduce_tasks[t], worker_id) ELSE reduce_tasks[t]]
            /\ reply' = TaskReply(TaskTypeOf(task), task)
    /\ UNCHANGED <<map_phase_complete, all_tasks_complete>>

\* FindTask with a fault: the second lookup is not guarded
FindTaskUnguarded(task_id) ==
    IF task_id \in DOMAIN map_tasks THEN MAP ELSE REDUCE

\* lines 187-192: which table holds task_id
FindTask(task_id) ==
    IF task_id \in DOMAIN map_tasks THEN MAP
    ELSE IF task_id \in DOMAIN reduce_tasks THEN REDUCE
    ELSE "none"

\* ReportedTaskInfo with a fault: a failure report resets only the reporter's lease
ReportedTaskInfoLeaseChecked(task_info, worker_id, success) ==
    IF success
    THEN [task_info EXCEPT !.status = COMPLETED, !.completion_time = 0]
    ELSE IF task_info.status = IN_PROGRESS /\ task_info.worker_id = worker_id
         THEN [task_info EXCEPT !.status = IDLE, !.worker_id = None,
                                !.start_time = None]
         ELSE task_info

\* lines 197-208: the TaskInfo after a completion report
ReportedTaskInfo(task_info, worker_id, success) ==
    IF success
    THEN [task_info EXCEPT !.status = COMPLETED, !.completion_time = 0]
    ELSE [task_info EXCEPT !.status = IDLE, !.worker_id = None,
                           !.start_time = None]

\* MapPhaseAfterCheck with a fault: the flag is recomputed, not latched
MapPhaseRecomputed(flag, maps) == AllCompleted(maps)

\* MapPhaseAfterCheck with a fault: the map table is looked at as it was
\* before the report was applied
MapPhaseCheckedBefore(flag, maps) ==
    IF ~flag THEN AllCompleted(map_tasks) ELSE flag

\* _check_phase_completion (lines 231-237), on the tables as just updated
MapPhaseAfterCheck(flag, maps) ==
    IF ~flag THEN AllCompleted(maps) ELSE flag

\* AllTasksAfterCheck with a fault: the reduce table is looked at as it was
\* before the report was applied
AllTasksCheckedBefore(flag, map_flag, reduces) ==
    IF map_flag /\ AllCompleted(reduce_tasks) THEN TRUE ELSE flag

\* _check_phase_completion (lines 241-247)
AllTasksAfterCheck(flag, map_flag, reduces) ==
    IF map_flag /\ AllCompleted(reduces) THEN TRUE ELSE flag

\* _handle_task_completion
HandleTaskCompletion(worker_id, task_id, success) ==
    LET where == FindTask(task_id)
        maps == [t \in DOMAIN map_tasks |->
                   IF where = MAP /\ t = task_id
                   THEN ReportedTaskInfo(map_tasks[t], worker_id, success)
                   ELSE map_tasks[t]]
        reduces == [t \in DOMAIN reduce_tasks |->
                   IF where = REDUCE /\ t = task_id
                   THEN ReportedTaskInfo(reduce_tasks[t], worker_id, success)
                   ELSE reduce_tasks[t]]
        map_flag == MapPhaseAfterCheck(map_phase_complete, maps)
    IN
    IF where = "none"
    THEN /\ reply' = AckReply(FALSE)
         /\ UNCHANGED coord
    ELSE /\ map_tasks' = maps
         /\ reduce_tasks' = reduces
         /\ IF success
            THEN /\ map_phase_complete' = map_flag
                 /\ all_tasks_complete' =
                        AllTasksAfterCheck(all_tasks_complete, map_flag, reduces)
            ELSE UNCHANGED <<map_phase_complete, all_tasks_complete>>
         /\ reply' = AckReply(TRUE)

\* LeaseExpired with a fault: a lease of exactly the timeout counts as run out
LeaseExpiredAtTimeout(task_info) ==
    /\ task_info.status = IN_PROGRESS
    /\ task_info.start_time # None
    /\ task_info.start_time >= LeaseTimeout

\* lines 264-268 / 279-283: the monitor's test of one TaskInfo
LeaseExpired(task_info) ==
    /\ task_info.status = IN_PROGRESS
    /\ task_info.start_time # None
    /\ task_info.start_time > LeaseTimeout

\* ResetTask with a fault: the status is left as it was
ResetTaskKeepsStatus(task_info) ==
    [task_info EXCEPT !.worker_id = None, !.start_time = None]

\* lines 273-275 / 288-290
ResetTask(task_info) ==
    [task_info EXCEPT !.status = IDLE, !.worker_id = None, !.start_time = None]

\* one iteration of _monitor_tasks
MonitorTasks ==
    /\ monitor_running
    /\ IF all_tasks_complete
       THEN /\ monitor_running' = FALSE
            /\ UNCHANGED coord
       ELSE /\ IF ~map_phase_complete
               THEN /\ map_tasks' = [t \in DOMAIN map_tasks |->
                          IF LeaseExpired(map_tasks[t])
                          THEN ResetTask(map_tasks[t]) ELSE map_tasks[t]]
                    /\ UNCHANGED reduce_tasks
               ELSE /\ reduce_tasks' = [t \in DOMAIN reduce_tasks |->
                          IF LeaseExpired(reduce_tasks[t])
                          THEN ResetTask(reduce_tasks[t]) ELSE reduce_tasks[t]]
                    /\ UNCHANGED map_tasks
            /\ UNCHANGED <<map_phase_complete, all_tasks_complete, monitor_running>>
    /\ UNCHANGED <<worker, reply, data, rpc_server, library>>

\* ---- clock --------------------------------------------------------------

Aged(task_info) ==
    [task_info EXCEPT
       !.start_time = IF task_info.status = IN_PROGRESS /\ @ # None
                      THEN (IF @ + TickStep > LeaseTimeout
                            THEN LeaseTimeout + 1 ELSE @ + TickStep)
                      ELSE @]

\* time.time() advances by TickStep seconds
Tick ==
    /\ map_tasks' = [t \in DOMAIN map_tasks |-> Aged(map_tasks[t])]
    /\ reduce_tasks' = [t \in DOMAIN reduce_tasks |-> Aged(reduce_tasks[t])]
    /\ UNCHANGED <<map_phase_complete, all_tasks_complete, monitor_running,
                   worker, reply, data, rpc_server, library>>

\* ---- worker -------------------------------------------------------------

\* AfterReply with a fault: a WAIT reply is executed like a task
AfterReplyWaitExecuted(r) ==
    IF r.task_type = EXIT
    THEN [pc |-> "exited", task_id |-> None, success |-> FALSE, error |-> NoError]
    ELSE [pc |-> "execute", task_id |-> r.task_id, success |-> FALSE,
          error |-> NoError]

\* Worker.run after a reply arrived (lines 62-77)
AfterReply(r) ==
    IF r.task_type = EXIT
    THEN [pc |-> "exited", task_id |-> None, success |-> FALSE, error |-> NoError]
    ELSE IF r.task_type = WAIT THEN IdleWorker
    ELSE [pc |-> "execute", task_id |-> r.task_id, success |-> FALSE,
          error |-> NoError]

\* _request_task: the call is served and the reply reaches the worker
RequestTask(w) ==
    /\ worker[w].pc = "request"
    /\ HandleTaskRequest(w)
    /\ worker' = [worker EXCEPT ![w] = AfterReply(reply')]
    /\ Accept
    /\ UNCHANGED <<monitor_running, data, library>>

\* the call is served but RPCClient.call returns None (timeout, broken
\* connection): run() leaves its loop (lines 62-64)
RequestTaskReplyLost(w) ==
    /\ worker[w].pc = "request"
    /\ HandleTaskRequest(w)
    /\ worker' = [worker EXCEPT ![w] = [pc |-> "exited", task_id |-> None,
                                        success |-> FALSE, error |-> NoError]]
    /\ Accept
    /\ UNCHANGED <<monitor_running, data, library>>

\* the call never reaches a handler (connection refused)
RequestTaskFailed(w) ==
    /\ worker[w].pc = "request"
    /\ worker' = [worker EXCEPT ![w] = [pc |-> "exited", task_id |-> None,
                                        success |-> FALSE, error |-> NoError]]
    /\ UNCHANGED <<coord, monitor_running, reply, data, rpc_server, library>>

\* _execute_task: True, or False after an exception
ExecuteTask(w) ==
    /\ worker[w].pc = "execute"
    /\ \E ok \in BOOLEAN :
         worker' = [worker EXCEPT ![w] = [pc |-> "report",
                                          task_id |-> worker[w].task_id,
                                          success |-> ok,
                                          error |-> IF ok THEN NoError
                                                    ELSE TaskError]]
    /\ UNCHANGED <<coord, monitor_running, reply, data, rpc_server, library>>

\* the parameters of the complete_task call: run() passes task_id and
\* success (line 80), error_message keeps its default "" (line 113)
CompletionParams(w) ==
    [worker_id |-> w, task_id |-> worker[w].task_id,
     success |-> worker[w].success, error_message |-> NoError]

\* _report_completion: the call is served; its result is ignored
ReportCompletion(w) ==
    /\ worker[w].pc = "report"
    /\ HandleTaskCompletion(CompletionParams(w).worker_id,
                            CompletionParams(w).task_id,
                            CompletionParams(w).success)
    /\ worker' = [worker EXCEPT ![w] = IdleWorker]
    /\ Accept
    /\ UNCHANGED <<monitor_running, data, library>>

\* the call never reaches a handler; run() goes on to the next request
ReportCompletionFailed(w) ==
    /\ worker[w].pc = "report"
    /\ worker' = [worker EXCEPT ![w] = IdleWorker]
    /\ UNCHANGED <<coord, monitor_running, reply, data, rpc_server, library>>

\* the worker process stops for good, anywhere in its loop
Crash(w) ==
    /\ worker[w].pc \in {"request", "execute", "report"}
    /\ worker' = [worker EXCEPT ![w] = [pc |-> "crashed", task_id |-> None,
                                        success |-> FALSE, error |-> NoError]]
    /\ UNCHANGED <<coord, monitor_running, reply, data, rpc_server, library>>

\* ---- specification ------------------------------------------------------

Init ==
    /\ map_tasks = [t \in MapIds |-> TaskInfo]
    /\ reduce_tasks = [t \in ReduceIds |-> TaskInfo]
    /\ map_phase_complete = FALSE
    /\ all_tasks_complete = FALSE
    /\ monitor_running = TRUE
    /\ worker = [w \in Workers |-> IdleWorker]
    /\ reply = NoReply
    /\ NoData
    /\ rpc_server = LISTENING
    /\ NoCall

Next ==
    \/ \E w \in Workers : RequestTask(w)
    \/ \E w \in Workers : RequestTaskReplyLost(w)
    \/ \E w \in Workers : RequestTaskFailed(w)
    \/ \E w \in Workers : ExecuteTask(w)
    \/ \E w \in Workers : ReportCompletion(w)
    \/ \E w \in Workers : ReportCompletionFailed(w)
    \/ \E w \in Workers : Crash(w)
    \/ MonitorTasks
    \/ Tick

Spec == Init /\ [][Next]_vars

\* ---- a job with one healthy worker -------------------------------------

\* The healthy worker: it never crashes, its calls are served and answered,
\* and _execute_task returns True.  Every other worker is as in Next.
Healthy == MinOf(Workers)

HealthyExecuteTask ==
    /\ worker[Healthy].pc = "execute"
    /\ worker' = [worker EXCEPT ![Healthy] = [pc |-> "report",
                                   task_id |-> worker[Healthy].task_id,
                                   success |-> TRUE, error |-> NoError]]
    /\ UNCHANGED <<coord, monitor_running, reply, data, rpc_server, library>>

NextLive ==
    \/ RequestTask(Healthy)
    \/ HealthyExecuteTask
    \/ ReportCompletion(Healthy)
    \/ \E w \in Workers \ {Healthy} : RequestTask(w)
    \/ \E w \in Workers \ {Healthy} : RequestTaskReplyLost(w)
    \/ \E w \in Workers \ {Healthy} : RequestTaskFailed(w)
    \/ \E w \in Workers \ {Healthy} : ExecuteTask(w)
    \/ \E w \in Workers \ {Healthy} : ReportCompletion(w)
    \/ \E w \in Workers \ {Healthy} : ReportCompletionFailed(w)
    \/ \E w \in Workers \ {Healthy} : Crash(w)
    \/ MonitorTasks
    \/ Tick

\* The healthy worker's loop, the monitor thread and the clock keep running.
LiveSpec ==
    /\ Init
    /\ [][NextLive]_vars
    /\ WF_vars(RequestTask(Healthy))
    /\ WF_vars(HealthyExecuteTask)
    /\ WF_vars(ReportCompletion(Healthy))
    /\ WF_vars(MonitorTasks)
    /\ WF_vars(Tick)

\* ---- a client other than this job's workers -----------------------------

\* complete_task called for a task_id this coordinator never created
\* (RPCServer._handle_client passes the request's params to the handler)
CallCompleteTask(worker_id, task_id, success) ==
    /\ task_id \notin TaskIds
    /\ HandleTaskCompletion(worker_id, task_id, success)
    /\ Accept
    /\ UNCHANGED <<worker, monitor_running, data, library>>

\* a worker_id none of this job's workers has
ForeignWorker == NumWorkers + 1

NextRPC ==
    \/ Next
    \/ \E t \in {UnknownTaskId, None}, s \in BOOLEAN :
          CallCompleteTask(ForeignWorker, t, s)

SpecRPC == Init /\ [][NextRPC]_vars

\* ---- data plane: files, map and reduce executions -----------------------

\* bounds of the job whose files are modelled
JobNReduce == 2
NumSeeds == 2

\* 2**31 - 1 (mapreduce.py line 161)
HashModulus == 2147483647

\* the job's input files, each a sequence of words, and the words in the
\* ascending order of str comparison
JobFiles == << <<"a", "b">> >>
KeyOrder == <<"a", "b", "c">>

JobMapIds == 0 .. (Len(JobFiles) - 1)
JobReduceIds == Len(JobFiles) .. (Len(JobFiles) + JobNReduce - 1)
Seeds == 0 .. (NumSeeds - 1)

\* hash() of a str: keyed by a seed drawn at interpreter start, any signed
\* value; the table stands for two runs of the keyed hash
StrHash(seed, key) ==
    CASE seed = 0 /\ key = "a" -> 4
      [] seed = 0 /\ key = "b" -> 10
      [] key = "a" -> 0 - 2 * seed
      [] OTHER -> 6 * seed

\* ihash, as evaluated in a process with the given seed
ihash(seed, key) == StrHash(seed, key) % HashModulus

intermediate_filename(map_task_id, reduce_task_id) ==
    [base |-> "mr", map_task_id |-> map_task_id,
     reduce_task_id |-> reduce_task_id, tmp |-> FALSE]

output_filename(reduce_task_id) ==
    [base |-> "mr-out", map_task_id |-> None,
     reduce_task_id |-> reduce_task_id, tmp |-> FALSE]

\* filename + ".tmp"
TempFile(filename) == [filename EXCEPT !.tmp = TRUE]

FinalNames ==
    {intermediate_filename(m, j) : m \in JobMapIds, j \in 0 .. (JobNReduce - 1)}
    \cup {output_filename(j) : j \in 0 .. (JobNReduce - 1)}
FileNames == FinalNames \cup {TempFile(n) : n \in FinalNames}
Inodes == 1 .. (Cardinality(FileNames) + NumWorkers)

\* a stretch of a file that was never written (reads as NUL bytes)
Hole == [key |-> "", value |-> 0]

\* inodes that have a name or are open for writing
Referenced(d, e) ==
    ({d[n] : n \in DOMAIN d} \cup {e[w].f : w \in Workers}) \ {None}

RECURSIVE SeqOf(_)
SeqOf(S) ==
    IF S = {} THEN <<>>
    ELSE LET x == CHOOSE x \in S : TRUE IN <<x>> \o SeqOf(S \ {x})

NameSeq == SeqOf(FileNames)

\* Inode numbers carry no meaning: after a step that creates, links or
\* unlinks a file they are renumbered in the order of first reference (the
\* names in NameSeq order, then the workers' open files), and the storage of
\* inodes without name and without writer is released.
Normalized(d, dk, e) ==
    LET refs == [i \in 1 .. (Len(NameSeq) + NumWorkers) |->
                    IF i <= Len(NameSeq) THEN d[NameSeq[i]]
                    ELSE e[i - Len(NameSeq)].f]
        live == Referenced(d, e)
        First(x) == MinOf({i \in DOMAIN refs : refs[i] = x})
        NewId(x) == Cardinality({y \in live : First(y) <= First(x)})
        Old(i) == CHOOSE x \in live : NewId(x) = i
        Ren(x) == IF x = None THEN None ELSE NewId(x)
    IN [dir |-> [n \in DOMAIN d |-> Ren(d[n])],
        disk |-> [i \in Inodes |->
                    IF i <= Cardinality(live) THEN dk[Old(i)] ELSE <<>>],
        exec |-> [w \in Workers |-> [e[w] EXCEPT !.f = Ren(@)]]]

SetFiles(d, dk, e) ==
    LET n == Normalized(d, dk, e) IN
    /\ dir' = n.dir
    /\ disk' = n.disk
    /\ exec' = n.exec

\* f.write of one record at offset pos of a file opened with "w"
WriteAt(content, pos, rec) ==
    [i \in 1 .. (IF Len(content) > pos THEN Len(content) ELSE pos + 1) |->
        IF i = pos + 1 THEN rec
        ELSE IF i <= Len(content) THEN content[i] ELSE Hole]

\* os.rename(source, target) on the directory
Renamed(d, source, target) ==
    [d EXCEPT ![target] = d[source], ![source] = None]

\* WordCountApp.map_func: one (word, "1") per word; the value "1" is 1 here
map_func(contents) ==
    [i \in DOMAIN contents |-> [key |-> contents[i], value |-> 1]]

\* WordCountApp.reduce_func
reduce_func(key, values) == Len(values)

\* intermediate_files[reduce_id] of _execute_map_task in a process with seed
Bucket(seed, map_task_id, reduce_id) ==
    SelectSeq(map_func(JobFiles[map_task_id + 1]),
              LAMBDA kv : ihash(seed, kv.key) % JobNReduce = reduce_id)

\* read_key_values_from_file: a line that does not parse makes it return []
read_key_values_from_file(content) ==
    IF \E i \in DOMAIN content : content[i] = Hole THEN <<>> ELSE content

Rank(key) == CHOOSE i \in DOMAIN KeyOrder : KeyOrder[i] = key

\* sort_key_values with a fault: the list is returned as it came
SortSkipped(key_values) == key_values

\* sorted(key_values, key=lambda kv: kv.key): stable
RECURSIVE sort_key_values(_)
sort_key_values(key_values) ==
    IF key_values = <<>> THEN <<>>
    ELSE LET kv == Head(key_values)
             rest == sort_key_values(Tail(key_values))
         IN SelectSeq(rest, LAMBDA x : Rank(x.key) < Rank(kv.key))
            \o <<kv>>
            \o SelectSeq(rest, LAMBDA x : Rank(x.key) >= Rank(kv.key))

\* the loop of group_by_key
RECURSIVE GroupFrom(_, _)
GroupFrom(groups, rest) ==
    IF rest = <<>> THEN groups
    ELSE LET kv == Head(rest) IN
         IF groups # <<>> /\ groups[Len(groups)].key = kv.key
         THEN GroupFrom([groups EXCEPT ![Len(groups)].values = Append(@, kv.value)],
                        Tail(rest))
         ELSE GroupFrom(Append(groups, [key |-> kv.key, values |-> <<kv.value>>]),
                        Tail(rest))

group_by_key(sorted_key_values) == GroupFrom(<<>>, sorted_key_values)

\* the lines "{key} {result}" _execute_reduce_task writes for all_key_values
OutputLines(all_key_values) ==
    LET grouped == group_by_key(sort_key_values(all_key_values)) IN
    [i \in DOMAIN grouped |->
        [key |-> grouped[i].key,
         value |-> reduce_func(grouped[i].key, grouped[i].values)]]

\* worker w is inside _execute_task for a task of the given table
Executing(w, tasks) ==
    /\ worker[w].pc = "execute"
    /\ worker[w].task_id \in DOMAIN tasks

\* _execute_task returned ok: run() goes on to report
Returned(w, ok) ==
    [worker EXCEPT ![w] = [pc |-> "report", task_id |-> worker[w].task_id,
                           success |-> ok,
                           error |-> IF ok THEN NoError ELSE FileNotFoundError]]

\* open(filename, "w") by worker w: the file is created, or the inode the
\* name points to is truncated, whoever else is writing to it
OpenForWriting(w, filename) ==
    LET ino == IF dir[filename] # None THEN dir[filename]
               ELSE MinOf(Inodes \ Referenced(dir, exec))
    IN
    SetFiles([dir EXCEPT ![filename] = ino],
             [disk EXCEPT ![ino] = <<>>],
             [exec EXCEPT ![w].f = ino, ![w].pos = 0])

\* the file is closed, then os.rename(filename + ".tmp", filename); a missing
\* source raises FileNotFoundError and the execution returns False
CloseAndRename(w, filename, last) ==
    IF dir[TempFile(filename)] = None
    THEN /\ worker' = Returned(w, FALSE)
         /\ SetFiles(dir, disk, [exec EXCEPT ![w] = IdleExec])
    ELSE IF last
    THEN /\ worker' = Returned(w, TRUE)
         /\ SetFiles(Renamed(dir, TempFile(filename), filename), disk,
                     [exec EXCEPT ![w] = IdleExec])
    ELSE /\ UNCHANGED worker
         /\ SetFiles(Renamed(dir, TempFile(filename), filename), disk,
                     [exec EXCEPT ![w].f = None, ![w].pos = 0,
                                  ![w].reduce_id = @ + 1])

\* EmptyOutputCreated with a fault: nothing is created
EmptyOutputSkipped(d, filename, ino) == d

\* lines 192-193: with open(task.output_file, "w"): pass
EmptyOutputCreated(d, filename, ino) == [d EXCEPT ![filename] = ino]

\* _execute_map_task line 170, open of the temporary file
OpenIntermediate(w) ==
    /\ Executing(w, map_tasks)
    /\ exec[w].f = None
    /\ OpenForWriting(w, TempFile(intermediate_filename(worker[w].task_id,
                                                        exec[w].reduce_id)))
    /\ UNCHANGED <<coord, monitor_running, worker, reply, hash_seed, rpc_server, library>>

\* write_key_values_to_file, one record
WriteIntermediate(w) ==
    LET bucket == Bucket(hash_seed[w], worker[w].task_id, exec[w].reduce_id) IN
    /\ Executing(w, map_tasks)
    /\ exec[w].f # None
    /\ exec[w].pos < Len(bucket)
    /\ disk' = [disk EXCEPT ![exec[w].f] =
                    WriteAt(@, exec[w].pos, bucket[exec[w].pos + 1])]
    /\ exec' = [exec EXCEPT ![w].pos = @ + 1]
    /\ UNCHANGED <<coord, monitor_running, worker, reply, hash_seed, dir, rpc_server, library>>

\* _execute_map_task line 171, and the return after the last bucket
RenameIntermediate(w) ==
    /\ Executing(w, map_tasks)
    /\ exec[w].f # None
    /\ exec[w].pos = Len(Bucket(hash_seed[w], worker[w].task_id, exec[w].reduce_id))
    /\ CloseAndRename(w, intermediate_filename(worker[w].task_id, exec[w].reduce_id),
                      exec[w].reduce_id = JobNReduce - 1)
    /\ UNCHANGED <<coord, monitor_running, reply, hash_seed, rpc_server, library>>

\* _execute_reduce_task lines 185-188, one input file
ReadIntermediate(w) ==
    LET filename == intermediate_filename(exec[w].read,
                                          worker[w].task_id - Len(JobFiles))
    IN
    /\ Executing(w, reduce_tasks)
    /\ exec[w].read < Len(JobFiles)
    /\ exec' = [exec EXCEPT
                  ![w].read = @ + 1,
                  ![w].all_key_values =
                      IF dir[filename] = None THEN @
                      ELSE @ \o read_key_values_from_file(disk[dir[filename]])]
    /\ UNCHANGED <<coord, monitor_running, worker, reply, hash_seed, dir, disk, rpc_server, library>>

\* lines 190-194 (no key/value pair: the output file itself is opened with
\* "w", closed, and True returned) or line 206 (open of the temporary file)
OpenOutput(w) ==
    LET filename == output_filename(worker[w].task_id - Len(JobFiles))
        ino == IF dir[filename] # None THEN dir[filename]
               ELSE MinOf(Inodes \ Referenced(dir, exec))
    IN
    /\ Executing(w, reduce_tasks)
    /\ exec[w].read = Len(JobFiles)
    /\ exec[w].f = None
    /\ IF exec[w].all_key_values = <<>>
       THEN /\ worker' = Returned(w, TRUE)
            /\ SetFiles(EmptyOutputCreated(dir, filename, ino),
                        [disk EXCEPT ![ino] = <<>>],
                        [exec EXCEPT ![w] = IdleExec])
       ELSE /\ OpenForWriting(w, TempFile(filename))
            /\ UNCHANGED worker
    /\ UNCHANGED <<coord, monitor_running, reply, hash_seed, rpc_server, library>>

\* lines 207-209, one line of output
WriteOutput(w) ==
    LET lines == OutputLines(exec[w].all_key_values) IN
    /\ Executing(w, reduce_tasks)
    /\ exec[w].f # None
    /\ exec[w].pos < Len(lines)
    /\ disk' = [disk EXCEPT ![exec[w].f] =
                    WriteAt(@, exec[w].pos, lines[exec[w].pos + 1])]
    /\ exec' = [exec EXCEPT ![w].pos = @ + 1]
    /\ UNCHANGED <<coord, monitor_running, worker, reply, hash_seed, dir, rpc_server, library>>

\* line 212 and the return
RenameOutput(w) ==
    /\ Executing(w, reduce_tasks)
    /\ exec[w].f # None
    /\ exec[w].pos = Len(OutputLines(exec[w].all_key_values))
    /\ CloseAndRename(w, output_filename(worker[w].task_id - Len(JobFiles)), TRUE)
    /\ UNCHANGED <<coord, monitor_running, reply, hash_seed, rpc_server, library>>

\* a TaskInfo after time.time() advanced by more than the lease
Expired(task_info) ==
    [task_info EXCEPT
       !.start_time = IF task_info.status = IN_PROGRESS /\ @ # None
                      THEN LeaseTimeout + 1 ELSE @]

\* one iteration of _monitor_tasks that runs after such an advance of the
\* clock, no call having been served in between
MonitorTasksLate ==
    /\ monitor_running
    /\ IF all_tasks_complete
       THEN /\ monitor_running' = FALSE
            /\ UNCHANGED coord
       ELSE /\ IF ~map_phase_complete
               THEN /\ map_tasks' = [t \in DOMAIN map_tasks |->
                          IF LeaseExpired(Expired(map_tasks[t]))
                          THEN ResetTask(map_tasks[t]) ELSE map_tasks[t]]
                    /\ UNCHANGED reduce_tasks
               ELSE /\ reduce_tasks' = [t \in DOMAIN reduce_tasks |->
                          IF LeaseExpired(Expired(reduce_tasks[t]))
                          THEN ResetTask(reduce_tasks[t]) ELSE reduce_tasks[t]]
                    /\ UNCHANGED map_tasks
            /\ UNCHANGED <<map_phase_complete, all_tasks_complete, monitor_running>>
    /\ UNCHANGED <<worker, reply, data, rpc_server, library>>

\* Coordinator(JobFiles, JobNReduce) started in an empty directory, each
\* worker process with a hash seed of its own
InitJob ==
    /\ map_tasks = [t \in JobMapIds |-> TaskInfo]
    /\ reduce_tasks = [t \in JobReduceIds |-> TaskInfo]
    /\ map_phase_complete = FALSE
    /\ all_tasks_complete = FALSE
    /\ monitor_running = TRUE
    /\ worker = [w \in Workers |-> IdleWorker]
    /\ reply = NoReply
    /\ hash_seed \in {h \in [Workers -> Seeds] : h[Healthy] = 0}
    /\ dir = [n \in FileNames |-> None]
    /\ disk = [i \in Inodes |-> <<>>]
    /\ exec = [w \in Workers |-> IdleExec]
    /\ rpc_server = LISTENING
    /\ NoCall

NextJob ==
    \/ \E w \in Workers : RequestTask(w)
    \/ \E w \in Workers : OpenIntermediate(w)
    \/ \E w \in Workers : WriteIntermediate(w)
    \/ \E w \in Workers : RenameIntermediate(w)
    \/ \E w \in Workers : ReadIntermediate(w)
    \/ \E w \in Workers : OpenOutput(w)
    \/ \E w \in Workers : WriteOutput(w)
    \/ \E w \in Workers : RenameOutput(w)
    \/ \E w \in Workers : ReportCompletion(w)
    \/ MonitorTasksLate

JobSpec == InitJob /\ [][NextJob]_vars

\* ---- vocabulary of the properties ---------------------------------------

Info(t) == IF t \in DOMAIN map_tasks THEN map_tasks[t] ELSE reduce_tasks[t]
InfoNext(t) == IF t \in DOMAIN map_tasks THEN map_tasks'[t] ELSE reduce_tasks'[t]

\* a step in which the coordinator serves request_task for worker w
RequestServed(w) == RequestTask(w) \/ RequestTaskReplyLost(w)

\* a step in which the coordinator serves worker w's report (t, ok)
ReportServed(w, t, ok) ==
    /\ worker[w].task_id = t
    /\ worker[w].success = ok
    /\ ReportCompletion(w)

\* ---- properties ----------------------------------------------------------

\* C1: while some MAP task is IDLE or IN_PROGRESS, no served request_task
\* returns a REDUCE task.
C1_NoReduceWhileMapUnfinished ==
    [][\A w \in Workers :
         (/\ RequestServed(w)
          /\ \E t \in MapIds : map_tasks[t].status \in {IDLE, IN_PROGRESS})
         => reply'.task_type # REDUCE]_vars

\* C2: a task is handed out only from status IDLE: whenever request_task
\* returns a task, or a TaskInfo becomes IN_PROGRESS, changes holder or has
\* its lease restarted, that task was IDLE in the state before.
C2_AssignsOnlyIdle ==
    [][/\ \A w \in Workers :
            (RequestServed(w) /\ reply'.task_id # None)
            => /\ Info(reply'.task_id).status = IDLE
               /\ InfoNext(reply'.task_id).status = IN_PROGRESS
               /\ InfoNext(reply'.task_id).worker_id = w
       /\ \A t \in TaskIds :
            (/\ InfoNext(t).status = IN_PROGRESS
             /\ \/ Info(t).status # IN_PROGRESS
                \/ InfoNext(t).worker_id # Info(t).worker_id
                \/ InfoNext(t).start_time < Info(t).start_time)
            => Info(t).status = IDLE]_vars

\* C2 witness: two workers are both working on the same task, i.e. two
\* request_task calls returned it (it was reset in between).
C2_Witness ==
    \E w1, w2 \in Workers :
        /\ w1 # w2
        /\ worker[w1].pc \in {"execute", "report"}
        /\ worker[w2].pc \in {"execute", "report"}
        /\ worker[w1].task_id = worker[w2].task_id

\* C3: when done() is true every MAP and every REDUCE task is COMPLETED.
C3_DoneImpliesAllCompleted ==
    all_tasks_complete => AllCompleted(map_tasks) /\ AllCompleted(reduce_tasks)

\* C4: no step takes a TaskInfo out of status COMPLETED.
C4_CompletedNeverRegresses ==
    [][\A t \in TaskIds :
         Info(t).status = COMPLETED => InfoNext(t).status = COMPLETED]_vars

\* C5: map_phase_complete and all_tasks_complete never go from true to false.
C5_PhaseFlagsMonotone ==
    [][/\ map_phase_complete => map_phase_complete'
       /\ all_tasks_complete => all_tasks_complete']_vars

\* C5 witness: both flags are still true although a MAP task is no longer
\* COMPLETED.
C5_Witness ==
    /\ map_phase_complete
    /\ all_tasks_complete
    /\ ~AllCompleted(map_tasks)

\* C6: a success report for a task that is already COMPLETED, or whose lease
\* is held by another worker, is acknowledged and changes no TaskInfo and no
\* phase flag.
C6_StaleSuccessChangesNothing ==
    [][\A w \in Workers, t \in TaskIds :
         (/\ ReportServed(w, t, TRUE)
          /\ \/ Info(t).status = COMPLETED
             \/ Info(t).status = IN_PROGRESS /\ Info(t).worker_id # w)
         => reply'.acknowledged /\ UNCHANGED coord]_vars

C8_UnknownTaskRejected ==
    [][\A t \in {UnknownTaskId, None}, s \in BOOLEAN :
         CallCompleteTask(ForeignWorker, t, s)
         => ~reply'.acknowledged /\ UNCHANGED coord]_vars

\* C8 witness: the job is under way and the last call was refused.
C8_Witness ==
    /\ reply = AckReply(FALSE)
    /\ \E t \in TaskIds : Info(t).status = IN_PROGRESS
    /\ \E t \in TaskIds : Info(t).status = COMPLETED

\* C9: once all_tasks_complete is true, every served request_task returns
\* EXIT and assigns nothing.
C9_ExitAfterCompletion ==
    [][\A w \in Workers :
         (all_tasks_complete /\ RequestServed(w))
         => /\ reply'.task_type = EXIT
            /\ UNCHANGED <<map_tasks, reduce_tasks>>]_vars

Stopped(w) == worker[w].pc \in {"crashed", "exited"}

\* C10: if every worker other than the healthy one eventually stops for good
\* (wherever it is in its loop), done() eventually becomes true.
C10_CrashTolerance ==
    (\A w \in Workers \ {Healthy} : <>Stopped(w)) => <>all_tasks_complete

\* C10 witness: another worker has crashed while holding a lease, and the
\* lease has run out.
C10_Witness ==
    /\ ~all_tasks_complete
    /\ \E w \in Workers \ {Healthy}, t \in TaskIds :
          /\ worker[w].pc = "crashed"
          /\ Info(t).status = IN_PROGRESS
          /\ Info(t).worker_id = w
          /\ Info(t).start_time > LeaseTimeout

\* the phase the monitor and _get_available_task currently look at
ActivePhase(t) ==
    IF t \in MapIds THEN ~map_phase_complete ELSE map_phase_complete

\* worker w stopped for good while the lease of task t is recorded for it
HeldByCrashed(t, w) ==
    /\ ~all_tasks_complete
    /\ ActivePhase(t)
    /\ Info(t).status = IN_PROGRESS
    /\ Info(t).worker_id = w
    /\ worker[w].pc = "crashed"

\* C11: while the job is not done, a task of the active phase that is
\* IN_PROGRESS for a worker that never delivers complete_task is eventually
\* reset by the monitor and handed by request_task to another worker.
C11_ExpiredLeaseReassigned ==
    \A t \in TaskIds, w \in Workers \ {Healthy} :
        HeldByCrashed(t, w)
        ~> (Info(t).status = IN_PROGRESS /\ Info(t).worker_id \in Workers \ {w})

\* the same, allowing for the task to be COMPLETED by a report of an earlier
\* holder before the monitor or the next request_task gets to it
C11_ReassignedOrCompleted ==
    \A t \in TaskIds, w \in Workers \ {Healthy} :
        HeldByCrashed(t, w)
        ~> \/ Info(t).status = IN_PROGRESS /\ Info(t).worker_id \in Workers \ {w}
           \/ Info(t).status = COMPLETED

\* C13: in every reachable state each TaskInfo has worker_id and start_time
\* set exactly when its status is IN_PROGRESS.
C13_LeaseFieldsIffInProgress ==
    \A t \in TaskIds :
        /\ Info(t).worker_id # None <=> Info(t).status = IN_PROGRESS
        /\ Info(t).start_time # None <=> Info(t).status = IN_PROGRESS

\* what a reader finds under a file name: its records, or None
Visible(filename) ==
    IF dir[filename] = None THEN None ELSE disk[dir[filename]]

\* C14: every intermediate file visible under its final name mr-m-j holds
\* the complete bucket j of one attempt of MAP task m (never part of it).
C14_IntermediateFilesComplete ==
    \A m \in JobMapIds, j \in 0 .. (JobNReduce - 1) :
        dir[intermediate_filename(m, j)] # None
        => \E w \in Workers :
              Visible(intermediate_filename(m, j)) = Bucket(hash_seed[w], m, j)

\* at least one success report was accepted for the task
CompletedOnce(t) == Info(t).completion_time # None

\* C12: done() is true exactly when every MAP and every REDUCE task has been
\* completed at least once.
C12_DoneIffAllCompletedOnce ==
    all_tasks_complete
    <=> \A t \in DOMAIN map_tasks \cup DOMAIN reduce_tasks : CompletedOnce(t)

\* the half of C12 that goes from done() to the tasks
C12_DoneOnlyIfAllCompletedOnce ==
    all_tasks_complete
    => \A t \in DOMAIN map_tasks \cup DOMAIN reduce_tasks : CompletedOnce(t)

\* every key/value pair the MAP tasks of the job emit
RECURSIVE EmittedFrom(_)
EmittedFrom(m) ==
    IF m > Len(JobFiles) THEN <<>>
    ELSE map_func(JobFiles[m]) \o EmittedFrom(m + 1)

Emitted == EmittedFrom(1)
EmittedKeys == {Emitted[i].key : i \in DOMAIN Emitted}

ValuesOf(key) ==
    LET kvs == SelectSeq(Emitted, LAMBDA kv : kv.key = key) IN
    [i \in DOMAIN kvs |-> kvs[i].value]

\* the places <<j, i>> of the final output (line i of mr-out-j) with the key
OutputPlaces(key) ==
    {p \in (0 .. (JobNReduce - 1)) \X (1 .. Len(Emitted)) :
        /\ dir[output_filename(p[1])] # None
        /\ p[2] <= Len(Visible(output_filename(p[1])))
        /\ Visible(output_filename(p[1]))[p[2]].key = key}

\* C15: once done() is true, the files mr-out-j together hold, for every key
\* emitted by a MAP, exactly one line, and its value is reduce(key, all the
\* values emitted for the key).
C15_OutputCorrect ==
    all_tasks_complete
    => \A key \in EmittedKeys :
          /\ Cardinality(OutputPlaces(key)) = 1
          /\ \A p \in OutputPlaces(key) :
                Visible(output_filename(p[1]))[p[2]].value
                    = reduce_func(key, ValuesOf(key))

\* the keys of a file's lines are strictly ascending (unwritten stretches
\* carry no key)
Ascending(content) ==
    \A i, j \in DOMAIN content :
        (i < j /\ content[i] # Hole /\ content[j] # Hole)
        => Rank(content[i].key) < Rank(content[j].key)

\* C16: in the final output every key is in at most one file mr-out-j and at
\* most once in it, and the keys of each mr-out-j ascend.
C16_OutputKeysUniqueSorted ==
    all_tasks_complete
    => /\ \A key \in EmittedKeys : Cardinality(OutputPlaces(key)) <= 1
       /\ \A j \in 0 .. (JobNReduce - 1) :
             dir[output_filename(j)] # None
             => Ascending(Visible(output_filename(j)))

\* the bucket indexes j under which some visible mr-m-j holds the key
BucketsHolding(key) ==
    {j \in 0 .. (JobNReduce - 1) :
        \E m \in JobMapIds :
            /\ dir[intermediate_filename(m, j)] # None
            /\ \E i \in DOMAIN Visible(intermediate_filename(m, j)) :
                  Visible(intermediate_filename(m, j))[i].key = key}

\* C17: across the intermediate files of all MAP tasks a key is only ever
\* found under one bucket index j.
C17_PartitionDisjoint ==
    \A key \in EmittedKeys : Cardinality(BucketsHolding(key)) <= 1

\* C18: for the same key, ihash gives the same nonnegative integer in every
\* worker process of the job.
C18_HashStableAcrossWorkers ==
    \A w1, w2 \in Workers, key \in EmittedKeys :
        /\ ihash(hash_seed[w1], key) >= 0
        /\ ihash(hash_seed[w1], key) = ihash(hash_seed[w2], key)

\* C19: when a complete execution of a MAP task replaces the file mr-m-j that
\* a complete earlier execution left, the file's contents stay the same.
C19_MapReexecutionIdempotent ==
    [][\A w \in Workers, m \in JobMapIds, j \in 0 .. (JobNReduce - 1) :
         (/\ RenameIntermediate(w)
          /\ worker[w].task_id = m
          /\ exec[w].reduce_id = j
          /\ dir[TempFile(intermediate_filename(m, j))] # None
          /\ Visible(TempFile(intermediate_filename(m, j)))
                 = Bucket(hash_seed[w], m, j)
          /\ dir[intermediate_filename(m, j)] # None
          /\ \E v \in Workers :
                Visible(intermediate_filename(m, j)) = Bucket(hash_seed[v], m, j))
         => dir'[intermediate_filename(m, j)] # None
            /\ disk'[dir'[intermediate_filename(m, j)]]
                   = Visible(intermediate_filename(m, j))]_vars

\* C20: whenever done() is true, every file mr-out-j exists.
C20_OutputFilesExist ==
    all_tasks_complete
    => \A j \in 0 .. (JobNReduce - 1) : dir[output_filename(j)] # None

\* C20 witness: the job is done and a partition that received no key/value
\* pair has its (empty) output file.
C20_Witness ==
    /\ all_tasks_complete
    /\ \E j \in 0 .. (JobNReduce - 1) :
          /\ \A m \in JobMapIds : Visible(intermediate_filename(m, j)) = <<>>
          /\ Visible(output_filename(j)) = <<>>

\* ---- every worker keeps running its loop --------------------------------

\* No worker process stops and every call is served and answered; an
\* execution returns True or False.
NextFair ==
    \/ \E w \in Workers : RequestTask(w)
    \/ \E w \in Workers : ExecuteTask(w)
    \/ \E w \in Workers : ReportCompletion(w)
    \/ MonitorTasks
    \/ Tick

FairSpec ==
    /\ Init
    /\ [][NextFair]_vars
    /\ \A w \in Workers : /\ WF_vars(RequestTask(w))
                           /\ WF_vars(ExecuteTask(w))
                           /\ WF_vars(ReportCompletion(w))
    /\ WF_vars(MonitorTasks)
    /\ WF_vars(Tick)

\* worker w has left Worker.run after an EXIT reply
Exited(w) == worker[w].pc = "exited"

\* the half of C21 about a worker that received EXIT: it leaves its loop
\* with that reply and takes no further step
C21_ExitedIssuesNoCall ==
    [][\A w \in Workers :
         /\ (RequestServed(w) /\ reply'.task_type = EXIT) => Exited(w)'
         /\ Exited(w) => worker'[w] = worker[w]]_vars

\* C21: a worker that receives EXIT leaves its loop and issues no further
\* call, and once done() is true every worker that keeps running its loop
\* eventually receives EXIT and terminates.
C21_WorkersExitAfterDone ==
    /\ C21_ExitedIssuesNoCall
    /\ \A w \in Workers : all_tasks_complete ~> Exited(w)

\* the same for the worker whose executions all return True
C21_HealthyExitsAfterDone ==
    all_tasks_complete ~> Exited(Healthy)

\* ---- coordinator shutdown -----------------------------------------------

\* Coordinator.stop -> RPCServer.stop (rpc_utils.py lines 45-49): running
\* becomes False and the listening socket is closed.  close() does not wake
\* a _server_loop thread that is blocked in accept(): that thread still
\* takes the next connection and starts its handler (STOPPING); a thread
\* that was not inside accept() ends at once (CLOSED).
Stop ==
    /\ rpc_server = LISTENING
    /\ rpc_server' \in {STOPPING, CLOSED}
    /\ UNCHANGED <<coord, monitor_running, worker, reply, data, library>>

NextStop ==
    \/ Next
    \/ Stop

StopSpec == Init /\ [][NextStop]_vars

\* C22: after stop(), when a worker that is about to call RequestTask takes
\* its next step, the call fails and the worker leaves its loop; a worker
\* that has left its loop takes no further step.
C22_RequestFailsAfterStop ==
    [][\A w \in Workers :
         /\ (/\ rpc_server # LISTENING
             /\ worker[w].pc = "request"
             /\ worker'[w] # worker[w])
            => Stopped(w)'
         /\ Stopped(w) => worker'[w] = worker[w]]_vars

\* the same once the accept loop has ended
C22_RequestFailsOnceClosed ==
    [][\A w \in Workers :
         /\ (/\ rpc_server = CLOSED
             /\ worker[w].pc = "request"
             /\ worker'[w] # worker[w])
            => Stopped(w)' /\ UNCHANGED coord
         /\ Stopped(w) => worker'[w] = worker[w]]_vars

\* C23: when a worker's RequestTask call fails in transport (connection
\* refused, timeout, reply lost or malformed), the worker stays in its loop
\* and is about to call RequestTask again.
C23_RetriesAfterTransportError ==
    [][\A w \in Workers :
         (RequestTaskFailed(w) \/ RequestTaskReplyLost(w))
         => worker'[w].pc = "request"]_vars

\* what the code does instead: the worker has left its loop
C23_StopsAfterTransportError ==
    [][\A w \in Workers :
         (RequestTaskFailed(w) \/ RequestTaskReplyLost(w))
         => worker'[w].pc = "exited"]_vars

\* C24: when an execution failed, the complete_task call the worker makes
\* carries success = false and, as error_message, the text of the error
\* that made it fail, and the coordinator leaves the task IDLE.
C24_FailureReportedWithError ==
    [][\A w \in Workers, t \in TaskIds :
         ReportServed(w, t, FALSE)
         => /\ ~CompletionParams(w).success
            /\ CompletionParams(w).error_message = worker[w].error
            /\ InfoNext(t).status = IDLE]_vars

\* the same without the error text
C24_FailureReported ==
    [][\A w \in Workers, t \in TaskIds :
         ReportServed(w, t, FALSE)
         => /\ ~CompletionParams(w).success
            /\ InfoNext(t).status = IDLE]_vars

\* ---- construction with any n_reduce -------------------------------------

\* Coordinator(files, n_reduce) and main() take n_reduce as it comes:
\* _create_map_tasks makes one task per file, _create_reduce_tasks loops
\* over range(n_reduce), which is empty when n_reduce < 1.
InitConfig ==
    \E n_reduce \in {0 - 1, 0, NReduce} :
        /\ map_tasks = [t \in MapIds |-> TaskInfo]
        /\ reduce_tasks = [t \in NumFiles .. (NumFiles + n_reduce - 1) |-> TaskInfo]
        /\ map_phase_complete = FALSE
        /\ all_tasks_complete = FALSE
        /\ monitor_running = TRUE
        /\ worker = [w \in Workers |-> IdleWorker]
        /\ reply = NoReply
        /\ NoData
        /\ rpc_server = LISTENING
        /\ NoCall

ConfigSpec == InitConfig /\ [][Next]_vars

\* the coordinator was constructed with n_reduce < 1
BadConfig == DOMAIN reduce_tasks = {}

\* C25: for a job constructed with n_reduce < 1 no served request_task
\* returns a MAP or REDUCE task.
C25_NoTaskForBadConfig ==
    [][\A w \in Workers :
         (BadConfig /\ RequestServed(w))
         => reply'.task_type \notin {MAP, REDUCE}]_vars

\* ---- requests of any client ---------------------------------------------

\* JSON values of a request's params; Absent: the name is not in params
Absent == [json |-> "absent", v |-> 0]
Array == [json |-> "array", v |-> 0]
Number(n) == [json |-> "number", v |-> n]
Boolean(b) == [json |-> IF b THEN "true" ELSE "false", v |-> 0]

Params(worker_id, task_id, success, other) ==
    [worker_id |-> worker_id, task_id |-> task_id, success |-> success,
     error_message |-> Absent, other |-> other]

\* Coordinator.start, lines 78-79
Handlers == {"request_task", "complete_task"}

\* requests that name no handler, do not fit the handler's signature, or
\* make the handler raise
BadRequests ==
    {[method |-> "no_such_method",
      params |-> Params(Number(ForeignWorker), Absent, Absent, Absent)],
     [method |-> "request_task",
      params |-> Params(Absent, Absent, Absent, Absent)],
     [method |-> "request_task",
      params |-> Params(Number(ForeignWorker), Absent, Absent, Number(0))],
     [method |-> "request_task",
      params |-> Params(Array, Absent, Absent, Absent)],
     [method |-> "complete_task",
      params |-> Params(Number(ForeignWorker), Number(0), Absent, Absent)],
     [method |-> "complete_task",
      params |-> Params(Number(ForeignWorker), Array, Boolean(TRUE), Absent)]}

Requests ==
    BadRequests
    \cup {[method |-> "complete_task",
           params |-> Params(Number(ForeignWorker), Number(UnknownTaskId),
                             Boolean(TRUE), Absent)]}

\* handler(**params) can be called: no parameter without default is
\* missing and no name is unexpected
Binds(method, params) ==
    LET given == {n \in DOMAIN params : params[n] # Absent}
        required == IF method = "request_task" THEN {"worker_id"}
                    ELSE {"worker_id", "task_id", "success"}
        optional == IF method = "request_task" THEN {} ELSE {"error_message"}
    IN
    /\ required \subseteq given
    /\ given \subseteq required \cup optional

\* Unhashable with a fault: every value can be looked up
Hashable(value) == FALSE

\* a list is no dict key and no set member: TypeError
Unhashable(value) == value.json = "array"

\* the call raises: TypeError on binding, in active_workers.add(worker_id)
\* (coordinator.py line 141) or in `task_id in self.map_tasks` (line 189),
\* each before the handler has assigned anything
HandlerRaises(method, params) ==
    \/ ~Binds(method, params)
    \/ method = "request_task" /\ Unhashable(params.worker_id)
    \/ method = "complete_task" /\ Unhashable(params.task_id)

\* RPCServer._handle_client for one request that was read and parsed
HandleClient(request) ==
    /\ Accept
    /\ IF request.method \notin Handlers
       THEN /\ reply' = ErrorReply("Unknown method")
            /\ UNCHANGED coord
       ELSE IF HandlerRaises(request.method, request.params)
       THEN /\ reply' = ErrorReply("TypeError")
            /\ UNCHANGED coord
       ELSE IF request.method = "request_task"
       THEN HandleTaskRequest(request.params.worker_id.v)
       ELSE HandleTaskCompletion(request.params.worker_id.v,
                                 request.params.task_id.v,
                                 request.params.success = Boolean(TRUE))
    /\ UNCHANGED <<worker, monitor_running, data, library>>

\* the workers' loops, the monitor and the clock, and any client's requests
NextClient ==
    \/ NextFair
    \/ \E request \in Requests : HandleClient(request)

ClientSpec == Init /\ [][NextClient]_vars

MaxKeyValues == 2
MaxKeyLen == 1
MaxValueLen == 2

\* A str is a sequence of characters.  The characters tried: a letter, the
\* two characters JSON escapes with a backslash, a line feed and a space.
CodecChars == {"n", "\"", "\\", "\n", " "}

RECURSIVE Strings(_)
Strings(n) ==
    IF n = 0 THEN {<<>>}
    ELSE LET shorter == Strings(n - 1) IN
         shorter \cup {Append(str, c) : str \in {t \in shorter : Len(t) = n - 1},
                                        c \in CodecChars}

\* lists of KeyValue(key, value)
KeyValueLists ==
    UNION {[1 .. n -> [key : Strings(MaxKeyLen), value : Strings(MaxValueLen)]] :
             n \in 0 .. MaxKeyValues}

\* Escape with a fault: the character is written as it is
Unescaped(c) == <<c>>

\* json.dump of one character of a str (ensure_ascii is left at True)
Escape(c) ==
    CASE c = "\"" -> <<"\\", "\"">>
      [] c = "\\" -> <<"\\", "\\">>
      [] c = "\n" -> <<"\\", "n">>
      [] OTHER -> <<c>>

RECURSIVE Escaped(_)
Escaped(str) ==
    IF str = <<>> THEN <<>> ELSE Escape(Head(str)) \o Escaped(Tail(str))

\* json.dump of a str
JsonString(str) == <<"\"">> \o Escaped(str) \o <<"\"">>

\* json.dump(kv.to_dict(), f): {"key": "...", "value": "..."}
json_dump(kv) ==
    <<"{">> \o JsonString(<<"k", "e", "y">>) \o <<":", " ">>
    \o JsonString(kv.key) \o <<",", " ">>
    \o JsonString(<<"v", "a", "l", "u", "e">>) \o <<":", " ">>
    \o JsonString(kv.value) \o <<"}">>

\* the text write_key_values_to_file leaves in the file
RECURSIVE write_key_values_to_file(_)
write_key_values_to_file(kvs) ==
    IF kvs = <<>> THEN <<>>
    ELSE json_dump(Head(kvs)) \o <<"\n">> \o write_key_values_to_file(Tail(kvs))

\* `for line in f`: the text cut after every line feed
RECURSIVE Lines(_)
Lines(text) ==
    IF text = <<>> THEN <<>>
    ELSE IF \E i \in DOMAIN text : text[i] = "\n"
         THEN LET n == MinOf({i \in DOMAIN text : text[i] = "\n"}) IN
              <<SubSeq(text, 1, n)>> \o Lines(SubSeq(text, n + 1, Len(text)))
         ELSE <<text>>

\* line.strip()
RECURSIVE strip(_)
strip(line) ==
    IF line # <<>> /\ Head(line) \in {" ", "\n"} THEN strip(Tail(line))
    ELSE IF line # <<>> /\ line[Len(line)] \in {" ", "\n"}
         THEN strip(SubSeq(line, 1, Len(line) - 1))
         ELSE line

ParseError == [ok |-> FALSE, value |-> <<>>, next |-> 0]

\* json.loads inside a string, from line[i] up to the closing quote
RECURSIVE ScanString(_, _, _)
ScanString(line, i, value) ==
    IF i > Len(line) THEN ParseError
    ELSE IF line[i] = "\"" THEN [ok |-> TRUE, value |-> value, next |-> i + 1]
    ELSE IF line[i] = "\n" THEN ParseError
    ELSE IF line[i] = "\\"
         THEN IF i + 1 > Len(line) THEN ParseError
              ELSE IF line[i + 1] = "n"
                   THEN ScanString(line, i + 2, Append(value, "\n"))
              ELSE IF line[i + 1] \in {"\"", "\\"}
                   THEN ScanString(line, i + 2, Append(value, line[i + 1]))
              ELSE ParseError
    ELSE ScanString(line, i + 1, Append(value, line[i]))

\* json.loads of a string that starts at line[i]
ParseString(line, i) ==
    IF i >= 1 /\ i <= Len(line) /\ line[i] = "\""
    THEN ScanString(line, i + 1, <<>>) ELSE ParseError

\* the position after the given punctuation at line[i], or 0
Expect(line, i, punctuation) ==
    IF /\ i >= 1
       /\ i + Len(punctuation) - 1 <= Len(line)
       /\ SubSeq(line, i, i + Len(punctuation) - 1) = punctuation
    THEN i + Len(punctuation) ELSE 0

\* KeyValue.from_dict(json.loads(line)) for an object of two str members
json_loads(line) ==
    LET name1 == ParseString(line, Expect(line, 1, <<"{">>))
        value1 == ParseString(line, Expect(line, name1.next, <<":", " ">>))
        name2 == ParseString(line, Expect(line, value1.next, <<",", " ">>))
        value2 == ParseString(line, Expect(line, name2.next, <<":", " ">>))
        end == Expect(line, value2.next, <<"}">>)
    IN
    IF ~(name1.ok /\ value1.ok /\ name2.ok /\ value2.ok) \/ end # Len(line) + 1
    THEN [ok |-> FALSE, kv |-> [key |-> <<>>, value |-> <<>>]]
    ELSE IF name1.value = <<"k", "e", "y">> /\ name2.value = <<"v", "a", "l", "u", "e">>
    THEN [ok |-> TRUE, kv |-> [key |-> value1.value, value |-> value2.value]]
    ELSE IF name2.value = <<"k", "e", "y">> /\ name1.value = <<"v", "a", "l", "u", "e">>
    THEN [ok |-> TRUE, kv |-> [key |-> value2.value, value |-> value1.value]]
    ELSE [ok |-> FALSE, kv |-> [key |-> <<>>, value |-> <<>>]]

\* the loop of read_key_values_from_file over the lines
RECURSIVE ReadLines(_)
ReadLines(lines) ==
    IF lines = <<>> THEN [ok |-> TRUE, kv_list |-> <<>>]
    ELSE LET rest == ReadLines(Tail(lines))
             line == strip(Head(lines))
         IN
         IF line = <<>> THEN rest
         ELSE IF json_loads(line).ok /\ rest.ok
              THEN [ok |-> TRUE, kv_list |-> <<json_loads(line).kv>> \o rest.kv_list]
              ELSE [ok |-> FALSE, kv_list |-> <<>>]

\* read_key_values_from_file on a file with the given text: any exception
\* makes it return []
ReadKeyValues(text) ==
    IF ReadLines(Lines(text)).ok THEN ReadLines(Lines(text)).kv_list ELSE <<>>

\* no coordinator, no worker: a library function is called on its own
NoJob ==
    /\ map_tasks = <<>>
    /\ reduce_tasks = <<>>
    /\ map_phase_complete = FALSE
    /\ all_tasks_complete = FALSE
    /\ monitor_running = FALSE
    /\ worker = [w \in Workers |-> IdleWorker]
    /\ reply = NoReply
    /\ NoData
    /\ rpc_server = CLOSED

InitCodec ==
    /\ NoJob
    /\ argument \in KeyValueLists
    /\ file_text = <<>>
    /\ returned = <<>>

\* write_key_values_to_file(filename, argument); file_text holds the text
\* of the file once it exists
WriteKeyValuesToFile ==
    /\ file_text = <<>>
    /\ file_text' = <<write_key_values_to_file(argument)>>
    /\ UNCHANGED <<coord, monitor_running, worker, reply, data, rpc_server,
                   argument, returned>>

\* read_key_values_from_file(filename); returned holds the value returned
ReadKeyValuesFromFile ==
    /\ file_text # <<>>
    /\ returned = <<>>
    /\ returned' = <<ReadKeyValues(file_text[1])>>
    /\ UNCHANGED <<coord, monitor_running, worker, reply, data, rpc_server,
                   argument, file_text>>

NextCodec ==
    \/ WriteKeyValuesToFile
    \/ ReadKeyValuesFromFile

CodecSpec == InitCodec /\ [][NextCodec]_vars

\* C27: read_key_values_from_file on the file write_key_values_to_file wrote
\* returns the list that was written, elements and order; the empty list
\* gives an empty file.
C27_RoundTrip ==
    /\ returned # <<>> => returned[1] = argument
    /\ (file_text # <<>> /\ argument = <<>>) => file_text[1] = <<>>

\* C27 witness: a list of two pairs was written and read back, with a quote
\* in a key, and a backslash followed by the letter n in a value.
C27_Witness ==
    /\ returned # <<>>
    /\ Len(argument) = MaxKeyValues
    /\ \E i \in DOMAIN argument : argument[i].key = <<"\"">>
    /\ \E i \in DOMAIN argument : argument[i].value = <<"\\", "n">>

\* ---- sorting and grouping a list ----------------------------------------

\* bounds of the lists sorted and grouped
MaxListLen == 4
NumValues == 2

\* lists of KeyValue(key, value), keys out of KeyOrder
UnsortedLists ==
    UNION {[1 .. n -> [key : {KeyOrder[i] : i \in DOMAIN KeyOrder},
                       value : 1 .. NumValues]] : n \in 0 .. MaxListLen}

InitGroup ==
    /\ NoJob
    /\ argument \in UnsortedLists
    /\ file_text = <<>>
    /\ returned = <<>>

\* group_by_key(sort_key_values(argument)), as in _execute_reduce_task
\* (worker.py lines 196-200)
SortAndGroup ==
    /\ returned = <<>>
    /\ returned' = <<group_by_key(sort_key_values(argument))>>
    /\ UNCHANGED <<coord, monitor_running, worker, reply, data, rpc_server,
                   argument, file_text>>

NextGroup == SortAndGroup

GroupSpec == InitGroup /\ [][NextGroup]_vars

\* the values a list has for the key, in the order of the list
ValuesIn(kvs, key) ==
    LET with_key == SelectSeq(kvs, LAMBDA kv : kv.key = key) IN
    [i \in DOMAIN with_key |-> with_key[i].value]

\* C28: group_by_key(sort_key_values(kvs)) has exactly one pair (k, vals) for
\* every distinct key k of kvs and none for other keys, the keys ascend, and
\* vals are the values kvs has for k, as many and in the same relative order.
C28_GroupsOfSortedList ==
    returned # <<>>
    => LET groups == returned[1] IN
       /\ \A i \in DOMAIN argument :
             Cardinality({g \in DOMAIN groups : groups[g].key = argument[i].key}) = 1
       /\ \A g \in DOMAIN groups :
             /\ \E i \in DOMAIN argument : argument[i].key = groups[g].key
             /\ groups[g].values = ValuesIn(argument, groups[g].key)
             /\ Len(groups[g].values)
                  = Cardinality({i \in DOMAIN argument : argument[i].key = groups[g].key})
       /\ \A g, h \in DOMAIN groups :
             g < h => Rank(groups[g].key) < Rank(groups[h].key)

\* C28 witness: a list that is not sorted, with a key that comes twice, not
\* side by side and with different values, was sorted and grouped.
C28_Witness ==
    /\ returned # <<>>
    /\ Len(argument) = MaxListLen
    /\ \E i, j, k \in DOMAIN argument :
          /\ i < j /\ j < k
          /\ argument[i].key = argument[k].key
          /\ Rank(argument[j].key) < Rank(argument[i].key)
          /\ argument[i].value # argument[k].value

C29_TransitionsOfTheCode ==
    [][\A t \in TaskIds :
         Info(t).status # InfoNext(t).status
         => \/ /\ Info(t).status = IDLE
               /\ InfoNext(t).status = IN_PROGRESS
               /\ \E w \in Workers : RequestServed(w) /\ reply'.task_id = t
            \/ /\ InfoNext(t).status = COMPLETED
               /\ \E w \in Workers : ReportServed(w, t, TRUE)
            \/ /\ InfoNext(t).status = IDLE
               /\ \/ \E w \in Workers : ReportServed(w, t, FALSE)
                  \/ Info(t).status = IN_PROGRESS /\ MonitorTasks]_vars

\* the monitor has to reset task t: the job is not done, t belongs to the
\* phase under way and is IN_PROGRESS for more than the timeout
MustReset(t) ==
    /\ ~all_tasks_complete
    /\ ActivePhase(t)
    /\ Info(t).status = IN_PROGRESS
    /\ Info(t).start_time > LeaseTimeout

\* C30: an iteration of the monitor resets the tasks of the active phase
\* that are IN_PROGRESS for more than 10 seconds to IDLE with worker_id and
\* start_time cleared, and leaves every other TaskInfo and both phase flags
\* as they are; once done() is true it changes nothing.
C30_MonitorResetsExpiredOnly ==
    [][MonitorTasks
       => /\ \A t \in TaskIds :
                InfoNext(t) = IF MustReset(t)
                              THEN [Info(t) EXCEPT !.status = IDLE,
                                                   !.worker_id = None,
                                                   !.start_time = None]
                              ELSE Info(t)
          /\ UNCHANGED <<map_phase_complete, all_tasks_complete>>]_vars

\* C30 witness: a MAP task was reset while its worker is still executing it,
\* and another MAP task, IN_PROGRESS for exactly 10 seconds, keeps its lease.
C30_Witness ==
    \E t1, t2 \in MapIds, w1, w2 \in Workers :
        /\ t1 # t2 /\ w1 # w2
        /\ worker[w1].pc = "execute" /\ worker[w1].task_id = t1
        /\ Info(t1).status = IDLE
        /\ worker[w2].pc = "execute" /\ worker[w2].task_id = t2
        /\ Info(t2).status = IN_PROGRESS
        /\ Info(t2).worker_id = w2
        /\ Info(t2).start_time = LeaseTimeout

\* ---- request_task while the job is not complete -------------------------

\* the IDLE tasks of the phase _get_available_task looks at
IdleInActivePhase ==
    {t \in TaskIds : ActivePhase(t) /\ Info(t).status = IDLE}

\* C31: a served request_task while all_tasks_complete is false: if the
\* active phase has an IDLE task, exactly one such task becomes IN_PROGRESS
\* with worker_id = the caller and start_time = now and is the task returned,
\* every other TaskInfo and both flags staying as they were; otherwise WAIT is
\* returned and no TaskInfo and no flag changes.
C31_RequestAssignsOneOrWaits ==
    [][\A w \in Workers :
         (RequestServed(w) /\ ~all_tasks_complete)
         => IF IdleInActivePhase # {}
            THEN /\ reply'.task_id \in IdleInActivePhase
                 /\ reply'.task_type = TaskTypeOf(reply'.task_id)
                 /\ InfoNext(reply'.task_id)
                        = [Info(reply'.task_id) EXCEPT !.status = IN_PROGRESS,
                                                        !.worker_id = w,
                                                        !.start_time = 0]
                 /\ \A u \in TaskIds \ {reply'.task_id} : InfoNext(u) = Info(u)
                 /\ UNCHANGED <<map_phase_complete, all_tasks_complete>>
            ELSE /\ reply' = TaskReply(WAIT, None)
                 /\ UNCHANGED coord]_vars

\* C31 witness: the job is not complete, one worker holds the task a request
\* handed to it (lease just started) and the last request was answered WAIT.
C31_Witness ==
    /\ ~all_tasks_complete
    /\ reply = TaskReply(WAIT, None)
    /\ \E w \in Workers, t \in TaskIds :
          /\ worker[w].pc = "execute"
          /\ worker[w].task_id = t
          /\ Info(t) = [TaskInfo EXCEPT !.status = IN_PROGRESS, !.worker_id = w,
                                        !.start_time = 0]

\* ---- the phase check after a success report -----------------------------

\* C32: a served success report for a known task is acknowledged and, in the
\* same step, map_phase_complete is set exactly when it was false and every
\* MAP task is now COMPLETED, all_tasks_complete is set exactly when
\* map_phase_complete is (now) true and every REDUCE task is now COMPLETED;
\* a success report for the only REDUCE task not yet COMPLETED makes done()
\* true in that very step.
C32_PhaseCheckAfterSuccess ==
    [][\A w \in Workers, t \in DOMAIN map_tasks \cup DOMAIN reduce_tasks :
         ReportServed(w, t, TRUE)
         => /\ reply'.acknowledged
            /\ map_phase_complete'
                  = (map_phase_complete \/ AllCompleted(map_tasks'))
            /\ all_tasks_complete'
                  = (\/ all_tasks_complete
                     \/ map_phase_complete' /\ AllCompleted(reduce_tasks'))
            /\ (/\ t \in DOMAIN reduce_tasks
                /\ \A u \in DOMAIN reduce_tasks \ {t} :
                      reduce_tasks[u].status = COMPLETED)
               => all_tasks_complete']_vars

\* C32 witness: the report of the last REDUCE task has just been served and
\* acknowledged: every task is COMPLETED and both flags are true.
C32_Witness ==
    /\ reply = AckReply(TRUE)
    /\ map_phase_complete
    /\ all_tasks_complete
    /\ AllCompleted(map_tasks)
    /\ AllCompleted(reduce_tasks)

\* ---- the order of a worker's calls --------------------------------------

\* worker w issues request_task, whatever becomes of the call
RequestCall(w) ==
    RequestTask(w) \/ RequestTaskReplyLost(w) \/ RequestTaskFailed(w)

\* worker w issues complete_task, whatever becomes of the call
CompleteCall(w) == ReportCompletion(w) \/ ReportCompletionFailed(w)

\* C33: in each worker's run, a request_task that returned a MAP or REDUCE
\* task is followed by the execution of that task and then by exactly one
\* complete_task of that worker for that task_id, and only then by the
\* worker's next request_task; after a WAIT or EXIT reply no complete_task
\* follows (the worker asks again, or leaves).
C33_WorkerProtocolOrder ==
    [][\A w \in Workers :
         \* a request is issued only with no task in hand
         /\ RequestCall(w)
            => worker[w].pc = "request" /\ worker[w].task_id = None
         \* what the worker does with the reply
         /\ RequestTask(w)
            => IF reply'.task_type \in {MAP, REDUCE}
               THEN /\ worker'[w].pc = "execute"
                    /\ worker'[w].task_id = reply'.task_id
                    /\ reply'.task_id \in TaskIds
               ELSE /\ worker'[w].pc = (IF reply'.task_type = WAIT
                                        THEN "request" ELSE "exited")
                    /\ worker'[w].task_id = None
         \* a task in hand is executed, then reported, then given up
         /\ worker[w].pc = "execute"
            => \/ worker'[w] = worker[w]
               \/ worker'[w].pc = "crashed"
               \/ /\ ExecuteTask(w)
                  /\ worker'[w].pc = "report"
                  /\ worker'[w].task_id = worker[w].task_id
         /\ worker[w].pc = "report"
            => \/ worker'[w] = worker[w]
               \/ worker'[w].pc = "crashed"
               \/ CompleteCall(w)
         \* complete_task is called for the task in hand and that once
         /\ CompleteCall(w)
            => /\ worker[w].pc = "report"
               /\ worker[w].task_id \in TaskIds
               /\ CompletionParams(w).worker_id = w
               /\ CompletionParams(w).task_id = worker[w].task_id
               /\ worker'[w].pc = "request"
               /\ worker'[w].task_id = None
         \* a worker that left its loop calls nothing
         /\ worker[w].pc \in {"exited", "crashed"} => worker'[w] = worker[w]]_vars

\* C33 witness: a worker has been through the whole cycle: a task it was
\* handed is COMPLETED by its report and it is executing the next one.
C33_Witness ==
    \E w \in Workers, t \in TaskIds :
        /\ Info(t).status = COMPLETED
        /\ Info(t).worker_id = w
        /\ worker[w].pc = "execute"
        /\ worker[w].task_id \in TaskIds \ {t}

\* ---- intermediate files at the hand-over from MAP to REDUCE -------------

\* bucket index j of REDUCE task t of the job
ReduceIndex(t) == t - Len(JobFiles)

\* mr-m-j is visible and holds all of bucket j of one attempt of MAP task m
CompleteInput(m, j) ==
    /\ dir[intermediate_filename(m, j)] # None
    /\ \E w \in Workers :
          Visible(intermediate_filename(m, j)) = Bucket(hash_seed[w], m, j)

\* C34: when a worker's success report for MAP task m is served, all files
\* mr-m-0 .. mr-m-(R-1) exist under their final names; and whenever
\* request_task hands out REDUCE task j, each of its input files
\* mr-0-j .. mr-(M-1)-j exists and is complete.
C34_ReduceInputsReady ==
    [][/\ \A w \in Workers, m \in JobMapIds :
            ReportServed(w, m, TRUE)
            => \A j \in 0 .. (JobNReduce - 1) :
                  dir[intermediate_filename(m, j)] # None
       /\ \A w \in Workers :
            (RequestServed(w) /\ reply'.task_type = REDUCE)
            => \A m \in JobMapIds :
                  CompleteInput(m, ReduceIndex(reply'.task_id))]_vars

\* the same with "exists" in place of "exists and is complete"
C34_ReduceInputsExist ==
    [][/\ \A w \in Workers, m \in JobMapIds :
            ReportServed(w, m, TRUE)
            => \A j \in 0 .. (JobNReduce - 1) :
                  dir[intermediate_filename(m, j)] # None
       /\ \A w \in Workers :
            (RequestServed(w) /\ reply'.task_type = REDUCE)
            => \A m \in JobMapIds :
                  dir[intermediate_filename(m, ReduceIndex(reply'.task_id))]
                      # None]_vars

\* ---- how an output file comes to be -------------------------------------

\* the step changes what a reader finds under mr-out-j: the file appears,
\* or its contents are no longer what they were
OutputChanged(j) ==
    \/ dir[output_filename(j)] = None /\ dir'[output_filename(j)] # None
    \/ /\ dir[output_filename(j)] # None
       /\ dir'[output_filename(j)] # None
       /\ disk'[dir'[output_filename(j)]] # disk[dir[output_filename(j)]]

\* worker w renames the completely written mr-out-j.tmp of its attempt
RenamesComplete(w, j) ==
    /\ RenameOutput(w)
    /\ ReduceIndex(worker[w].task_id) = j
    /\ dir[TempFile(output_filename(j))] # None
    /\ Visible(TempFile(output_filename(j)))
           = OutputLines(exec[w].all_key_values)
    /\ dir'[output_filename(j)] # None
    /\ disk'[dir'[output_filename(j)]] = OutputLines(exec[w].all_key_values)

\* C35: mr-out-j appears, or changes, only by a REDUCE attempt renaming its
\* completely written temporary file mr-out-j.tmp onto it, also when the
\* attempt has no key/value pair; the final path is never written directly.
C35_OutputOnlyByRename ==
    [][\A j \in 0 .. (JobNReduce - 1) :
         OutputChanged(j) => \E w \in Workers : RenamesComplete(w, j)]_vars

\* what the code does: mr-out-j changes by a rename of mr-out-j.tmp, by the
\* open of the final path of an attempt without key/value pairs, or by a
\* write through a file opened as mr-out-j.tmp before it was renamed
C35_OutputChangesOfTheCode ==
    [][\A j \in 0 .. (JobNReduce - 1) :
         OutputChanged(j)
         => \E w \in Workers :
               /\ Executing(w, reduce_tasks)
               /\ ReduceIndex(worker[w].task_id) = j
               /\ \/ RenameOutput(w)
                  \/ OpenOutput(w) /\ exec[w].all_key_values = <<>>
                  \/ WriteOutput(w)]_vars

\* ---- which task request_task selects ------------------------------------

\* a function of the statuses and the phase flag alone: the IDLE task of the
\* active phase with the smallest task_id, if there is one
Selected ==
    IF IdleInActivePhase # {} THEN MinOf(IdleInActivePhase) ELSE None

\* C36: what a served request_task returns is determined by the task
\* statuses and the phase flags of the state it is served in: the IDLE task
\* of the active phase with the smallest task_id if there is one, else EXIT
\* or WAIT by all_tasks_complete; the caller's worker_id, the leases and
\* completion times recorded earlier and the earlier requests play no part.
C36_SelectionDeterministic ==
    [][\A w \in Workers :
         RequestServed(w)
         => /\ reply'.task_id = Selected
            /\ reply'.task_type =
                  (IF Selected # None THEN TaskTypeOf(Selected)
                   ELSE IF all_tasks_complete THEN EXIT ELSE WAIT)]_vars

\* C36 witness: two IDLE tasks with different pasts (one never handed out
\* or reset by the monitor, the other completed once and reset by a failure
\* report) were on offer, and the one with the smaller task_id was returned.
C36_Witness ==
    \E t, u \in TaskIds :
        /\ t < u
        /\ reply = TaskReply(TaskTypeOf(t), t)
        /\ Info(t).status = IN_PROGRESS
        /\ Info(t).start_time = 0
        /\ Info(t).completion_time = None
        /\ ActivePhase(u)
        /\ Info(u).status = IDLE
        /\ Info(u).completion_time # None

\* ---- construction of the coordinator ------------------------------------

\* bounds of the constructor's arguments
MaxFiles == 3
MaxReduce == 3

\* names of input files; a name may be given more than once
InputNames == {"x", "y", "z"}

ConstructorArgs ==
    {[files |-> fs, n_reduce |-> n] :
        fs \in UNION {[1 .. k -> InputNames] : k \in 0 .. MaxFiles},
        n \in 0 .. MaxReduce}

\* output_file = "" of a MAP task
NoFile == [base |-> "", map_task_id |-> None, reduce_task_id |-> None,
           tmp |-> FALSE]

\* TaskInfo(task=task): the dataclass defaults (coordinator.py lines 23-31)
TaskInfoOf(task) ==
    [task |-> task, status |-> IDLE, worker_id |-> None, start_time |-> None,
     completion_time |-> None]

\* the Task of _create_map_tasks (lines 108-115)
MapTask(task_id, i, filename, n_reduce) ==
    [task_id |-> task_id, task_type |-> MAP, input_files |-> <<filename>>,
     output_file |-> NoFile, n_reduce |-> n_reduce, map_task_id |-> i,
     reduce_task_id |-> None]

\* ReduceTask with a fault: files and partition are named after the task_id
ReduceTaskByTaskId(task_id, i, num_files, n_reduce) ==
    [task_id |-> task_id, task_type |-> REDUCE,
     input_files |-> [m \in 1 .. num_files |->
                         intermediate_filename(m - 1, task_id)],
     output_file |-> output_filename(task_id), n_reduce |-> n_reduce,
     map_task_id |-> None, reduce_task_id |-> task_id]

\* the Task of _create_reduce_tasks (lines 123-134)
ReduceTask(task_id, i, num_files, n_reduce) ==
    [task_id |-> task_id, task_type |-> REDUCE,
     input_files |-> [m \in 1 .. num_files |-> intermediate_filename(m - 1, i)],
     output_file |-> output_filename(i), n_reduce |-> n_reduce,
     map_task_id |-> None, reduce_task_id |-> i]

\* the loop of _create_map_tasks from index i on
RECURSIVE create_map_tasks(_, _)
create_map_tasks(self, i) ==
    IF i >= Len(self.files) THEN self
    ELSE create_map_tasks(
           [self EXCEPT
              !.map_tasks = @ @@ (self.next_task_id :>
                  TaskInfoOf(MapTask(self.next_task_id, i, self.files[i + 1],
                                     self.n_reduce))),
              !.next_task_id = @ + 1],
           i + 1)

\* the loop of _create_reduce_tasks from index i on
RECURSIVE create_reduce_tasks(_, _)
create_reduce_tasks(self, i) ==
    IF i >= self.n_reduce THEN self
    ELSE create_reduce_tasks(
           [self EXCEPT
              !.reduce_tasks = @ @@ (self.next_task_id :>
                  TaskInfoOf(ReduceTask(self.next_task_id, i, Len(self.files),
                                        self.n_reduce))),
              !.next_task_id = @ + 1],
           i + 1)

\* Coordinator.__init__(files, n_reduce): the fields of the new object
Coordinator(files, n_reduce) ==
    create_reduce_tasks(
        create_map_tasks(
            [files |-> files, n_reduce |-> n_reduce, map_tasks |-> <<>>,
             reduce_tasks |-> <<>>, next_task_id |-> 0,
             map_phase_complete |-> FALSE, all_tasks_complete |-> FALSE],
            0),
        0)

InitConstruct ==
    /\ NoJob
    /\ argument \in {<<a>> : a \in ConstructorArgs}
    /\ file_text = <<>>
    /\ returned = <<>>

\* Coordinator(files, n_reduce) is constructed
Construct ==
    /\ returned = <<>>
    /\ returned' = <<Coordinator(argument[1].files, argument[1].n_reduce)>>
    /\ UNCHANGED <<coord, monitor_running, worker, reply, data, rpc_server,
                   argument, file_text>>

NextConstruct == Construct

ConstructSpec == InitConstruct /\ [][NextConstruct]_vars

\* C37: the coordinator constructed for M files and R partitions has exactly
\* M MAP tasks, task_id = map index i in 0 .. M-1 (input the i-th file),
\* and exactly R REDUCE tasks, task_id = M + j with reduce index j, input
\* files mr-0-j .. mr-(M-1)-j and output mr-out-j; no task_id is used twice,
\* every task is IDLE without lease and both phase flags are false.
C37_TasksAfterConstruction ==
    returned # <<>>
    => LET self == returned[1]
           files == argument[1].files
           M == Len(argument[1].files)
           R == argument[1].n_reduce
       IN
       /\ DOMAIN self.map_tasks = 0 .. (M - 1)
       /\ Cardinality(DOMAIN self.map_tasks) = M
       /\ \A i \in 0 .. (M - 1) :
             /\ self.map_tasks[i].task.task_id = i
             /\ self.map_tasks[i].task.task_type = MAP
             /\ self.map_tasks[i].task.map_task_id = i
             /\ self.map_tasks[i].task.input_files = <<files[i + 1]>>
             /\ self.map_tasks[i].task.n_reduce = R
       /\ DOMAIN self.reduce_tasks = M .. (M + R - 1)
       /\ Cardinality(DOMAIN self.reduce_tasks) = R
       /\ \A j \in 0 .. (R - 1) :
             /\ self.reduce_tasks[M + j].task.task_id = M + j
             /\ self.reduce_tasks[M + j].task.task_type = REDUCE
             /\ self.reduce_tasks[M + j].task.reduce_task_id = j
             /\ self.reduce_tasks[M + j].task.input_files
                   = [m \in 1 .. M |-> intermediate_filename(m - 1, j)]
             /\ self.reduce_tasks[M + j].task.output_file = output_filename(j)
             /\ self.reduce_tasks[M + j].task.n_reduce = R
       /\ DOMAIN self.map_tasks \cap DOMAIN self.reduce_tasks = {}
       /\ \A t \in DOMAIN self.map_tasks :
             [status |-> self.map_tasks[t].status,
              worker_id |-> self.map_tasks[t].worker_id,
              start_time |-> self.map_tasks[t].start_time,
              completion_time |-> self.map_tasks[t].completion_time] = TaskInfo
       /\ \A t \in DOMAIN self.reduce_tasks :
             [status |-> self.reduce_tasks[t].status,
              worker_id |-> self.reduce_tasks[t].worker_id,
              start_time |-> self.reduce_tasks[t].start_time,
              completion_time |-> self.reduce_tasks[t].completion_time] = TaskInfo
       /\ ~self.map_phase_complete
       /\ ~self.all_tasks_complete

\* C37 witness: a coordinator was constructed for several files, one of them
\* named twice, and several partitions.
C37_Witness ==
    /\ returned # <<>>
    /\ Len(argument[1].files) >= 2
    /\ argument[1].files[1] = argument[1].files[2]
    /\ argument[1].n_reduce >= 2
    /\ Cardinality(DOMAIN returned[1].reduce_tasks) >= 2

\* ---- WAIT is only answered while something is running -------------------

\* C38: while all_tasks_complete is false some task of the active phase is
\* IDLE or IN_PROGRESS, and whenever a served request_task returns WAIT
\* some task of the active phase is IN_PROGRESS.
C38_NoStarvationByWait ==
    /\ [](~all_tasks_complete
           => \E t \in TaskIds :
                 ActivePhase(t) /\ Info(t).status \in {IDLE, IN_PROGRESS})
    /\ [][\A w \in Workers :
            (RequestServed(w) /\ reply'.task_type = WAIT)
            => \E t \in TaskIds :
                  ActivePhase(t) /\ Info(t).status = IN_PROGRESS]_vars

\* C38 witness: WAIT was the last answer, the job is not complete, the
\* active phase has no IDLE task and one that is IN_PROGRESS.
C38_Witness ==
    /\ ~all_tasks_complete
    /\ reply = TaskReply(WAIT, None)
    /\ IdleInActivePhase = {}
    /\ \E t \in TaskIds : ActivePhase(t) /\ Info(t).status = IN_PROGRESS

\* ---- leases recorded for one worker -------------------------------------

\* the tasks recorded as IN_PROGRESS for worker_id w
LeasesOf(w) ==
    {t \in TaskIds : Info(t).status = IN_PROGRESS /\ Info(t).worker_id = w}

\* C39: at any time a worker_id is recorded as the holder of at most one
\* IN_PROGRESS task, also after a complete_task call of that worker was lost
\* and the worker went on to its next request_task.
C39_AtMostOneLease ==
    \A w \in Workers : Cardinality(LeasesOf(w)) <= 1

\* ---- REDUCE tasks wait for the map phase --------------------------------

\* C40: in every reachable state with map_phase_complete false every REDUCE
\* task is IDLE: none is assigned or completed before the map phase is
\* complete.
C40_ReduceIdleUntilMapPhaseComplete ==
    ~map_phase_complete
    => \A t \in DOMAIN reduce_tasks : reduce_tasks[t].status = IDLE

\* C40 witness: the map phase is not complete, no MAP task is left to hand
\* out (one is COMPLETED, the rest IN_PROGRESS), and the worker that asked
\* last was told to WAIT while every REDUCE task is IDLE.
C40_Witness ==
    /\ ~map_phase_complete
    /\ reply = TaskReply(WAIT, None)
    /\ \E t \in DOMAIN map_tasks : map_tasks[t].status = COMPLETED
    /\ \A t \in DOMAIN map_tasks : map_tasks[t].status # IDLE
    /\ \A t \in DOMAIN reduce_tasks : reduce_tasks[t].status = IDLE
====
